---- MODULE Spec2Model ----
(***************************************************************************)
(* Model of homeassistant/components/google_tasks/todo.py: the date/time   *)
(* extractor, the priority detector, the item codec, the task orderer and  *)
(* the mutation handlers of GoogleTaskTodoListEntity.                      *)
(*                                                                         *)
(* Text is a sequence of tokens joined by single spaces.  A token is a     *)
(* word, or a substring of one of the shapes the regular expressions of    *)
(* DATE_PATTERNS / TIME_PATTERN look for.  Every token is a record         *)
(*   [k, a, b, c, s, sp]                                                   *)
(* with k the shape, a/b/c the numbers in textual order, s a word or the   *)
(* AM/PM suffix, and sp a flag (space before AM/PM, comma after the day).  *)
(* Shapes of different tokens do not overlap in the text.                  *)
(***************************************************************************)
EXTENDS Integers, Sequences, FiniteSets, TLC

VARIABLES
    text, extracted, epc,                           \* _extract_date_time
    api_item, from_api, todo_item, to_remote, cpc,  \* _convert_api_item, _convert_todo_item
    tasks, ordered, reordered, opc,                 \* _order_tasks
    data, remote, log, raised, last, nops           \* GoogleTaskTodoListEntity

evars == <<text, extracted, epc>>
cvars == <<api_item, from_api, todo_item, to_remote, cpc>>
ovars == <<tasks, ordered, reordered, opc>>
gvars == <<data, remote, log, raised, last, nops>>
vars == <<text, extracted, epc, api_item, from_api, todo_item, to_remote, cpc,
          tasks, ordered, reordered, opc, data, remote, log, raised, last, nops>>

----------------------------------------------------------------------------
(* Bounds *)
MaxTokens == 2
MaxTasks == 3
MaxOps == 3

----------------------------------------------------------------------------
(* Tokens and datetime values *)

Tok(k, a, b, c, s, sp) == [k |-> k, a |-> a, b |-> b, c |-> c, s |-> s, sp |-> sp]
Word(w) == Tok("word", 0, 0, 0, w, FALSE)
NoMatch == Tok("None", 0, 0, 0, "", FALSE)

\* datetime | None.  kind "naive": no tzinfo; "aware": tzinfo=UTC.
\* a point in time: the day on a scale that preserves the order, the minute of the day
Stamp(y, m, d, h, mi) == [day |-> (y * 12 + (m - 1)) * 31 + (d - 1), min |-> h * 60 + mi]
NoStamp == [day |-> 0, min |-> 0]
StampLess(a, b) == a.day < b.day \/ (a.day = b.day /\ a.min < b.min)
None == [kind |-> "None", t |-> NoStamp]
IsLeap(y) == (y % 4 = 0 /\ y % 100 # 0) \/ y % 400 = 0
DaysIn(m, y) ==
    IF m = 2 THEN (IF IsLeap(y) THEN 29 ELSE 28)
    ELSE IF m \in {4, 6, 9, 11} THEN 30 ELSE 31
Naive(y, m, d, h, mi) == [kind |-> "naive", t |-> Stamp(y, m, d, h, mi)]
datetime_max == Naive(9999, 12, 31, 23, 59)
\* datetime.replace(hour=h, minute=mi) on a value produced by a date-only format
ReplaceTime(dt, h, mi) == [dt EXCEPT !.t.min = h * 60 + mi]

ValueError == [kind |-> "ValueError", t |-> NoStamp]

----------------------------------------------------------------------------
(* DATE_PATTERNS, TIME_PATTERN and re.search *)

DATE_PATTERNS == <<
    [re |-> "YYYY/NN/NN",     fmt |-> "%Y/%m/%d"],
    [re |-> "NN/NN/YYYY",     fmt |-> "%d/%m/%Y"],
    [re |-> "NN/NN/YYYY",     fmt |-> "%m/%d/%Y"],
    [re |-> "D Mon YYYY",     fmt |-> "%d %b %Y"],
    [re |-> "Mon D,? YYYY",   fmt |-> "%b %d %Y"],
    [re |-> "Mon D YYYY",     fmt |-> "%b %d %Y"],
    [re |-> "YYYY Mon D",     fmt |-> "%Y %b %d"],
    [re |-> "YYYY D Mon",     fmt |-> "%Y %d %b"] >>

TIME_PATTERN == "H:MM( ?[AP]M)?"

\* does the regular expression match (all of) the token
ReMatches(re, tok) ==
    CASE re = "YYYY/NN/NN"   -> tok.k = "ymd"
      [] re = "NN/NN/YYYY"   -> tok.k = "slash"
      [] re = "D Mon YYYY"   -> tok.k = "dMonY"
      [] re = "Mon D,? YYYY" -> tok.k = "MonDY"
      [] re = "Mon D YYYY"   -> tok.k = "MonDY" /\ ~tok.sp
      [] re = "YYYY Mon D"   -> tok.k = "YMonD"
      [] re = "YYYY D Mon"   -> tok.k = "YDMon"
      [] re = TIME_PATTERN   -> tok.k = "time"
      [] OTHER               -> FALSE

\* re.search(pattern, text): the leftmost match, or None
re_search(re, txt) ==
    LET hits == {i \in 1..Len(txt) : ReMatches(re, txt[i])}
    IN IF hits = {} THEN NoMatch
       ELSE txt[CHOOSE i \in hits : \A j \in hits : i <= j]

\* datetime(y, m, d) with the range checks of strptime / datetime
MkDate(y, m, d) ==
    IF y >= 1 /\ m \in 1..12 /\ d >= 1 /\ d <= DaysIn(m, y)
    THEN Naive(y, m, d, 0, 0) ELSE ValueError

\* datetime.strptime(tok, fmt) for the formats of the module
strptime(tok, fmt) ==
    CASE fmt = "%Y/%m/%d" -> MkDate(tok.a, tok.b, tok.c)
      [] fmt = "%d/%m/%Y" -> MkDate(tok.c, tok.b, tok.a)
      [] fmt = "%m/%d/%Y" -> MkDate(tok.c, tok.a, tok.b)
      [] fmt = "%d %b %Y" -> MkDate(tok.c, tok.b, tok.a)
      [] fmt = "%b %d %Y" -> IF tok.sp THEN ValueError    \* the comma is not in the format
                             ELSE MkDate(tok.c, tok.a, tok.b)
      [] fmt = "%Y %b %d" -> MkDate(tok.a, tok.b, tok.c)
      [] fmt = "%Y %d %b" -> MkDate(tok.a, tok.c, tok.b)
      [] fmt = "%I:%M %p" ->
            \* the blank of the format needs at least one blank in the string
            IF tok.sp /\ tok.a \in 1..12 /\ tok.b \in 0..59 /\ tok.s \in {"AM", "PM"}
            THEN Naive(1900, 1, 1, (tok.a % 12) + (IF tok.s = "PM" THEN 12 ELSE 0), tok.b)
            ELSE ValueError
      [] fmt = "%H:%M" ->
            IF tok.a \in 0..23 /\ tok.b \in 0..59
            THEN Naive(1900, 1, 1, tok.a, tok.b)
            ELSE ValueError
      [] OTHER -> ValueError

hour(dt) == dt.t.min \div 60
minute(dt) == dt.t.min % 60

----------------------------------------------------------------------------
(* _extract_date_time *)

\* date_loop stopping at the first candidate whose pattern matches, parsed or not
RECURSIVE date_loop_first_match(_, _)
date_loop_first_match(txt, i) ==
    IF i > Len(DATE_PATTERNS) THEN [date |-> None, idx |-> 0]
    ELSE LET match == re_search(DATE_PATTERNS[i].re, txt)
         IN IF match = NoMatch THEN date_loop_first_match(txt, i + 1)
            ELSE LET d == strptime(match, DATE_PATTERNS[i].fmt)
                 IN IF d # ValueError THEN [date |-> d, idx |-> i]
                    ELSE [date |-> None, idx |-> 0]

\* the for loop over DATE_PATTERNS from index i on: the date and the index
\* of the candidate that produced it (0: none)
RECURSIVE date_loop(_, _)
date_loop(txt, i) ==
    IF i > Len(DATE_PATTERNS) THEN [date |-> None, idx |-> 0]
    ELSE LET match == re_search(DATE_PATTERNS[i].re, txt)
         IN IF match = NoMatch THEN date_loop(txt, i + 1)
            ELSE LET d == strptime(match, DATE_PATTERNS[i].fmt)
                 IN IF d # ValueError THEN [date |-> d, idx |-> i]
                    ELSE date_loop(txt, i + 1)

combine_time(extracted_date, extracted_time) ==
    IF extracted_date # None /\ extracted_time # NoMatch
    THEN LET time_obj == IF extracted_time.s \in {"AM", "PM"}
                         THEN strptime(extracted_time, "%I:%M %p")
                         ELSE strptime(extracted_time, "%H:%M")
         IN IF time_obj = ValueError THEN extracted_date
            ELSE ReplaceTime(extracted_date, hour(time_obj), minute(time_obj))
    ELSE extracted_date

_extract_date_time(txt) ==
    LET found == date_loop(txt, 1)
        extracted_time == re_search(TIME_PATTERN, txt)
    IN [date |-> combine_time(found.date, extracted_time),
        time |-> extracted_time,
        idx  |-> found.idx]

----------------------------------------------------------------------------
(* _is_priority_task *)

\* str.lower() on a word
LowerTable ==
    ("Urgent" :> "urgent") @@ ("URGENT" :> "urgent") @@ ("ASAP" :> "asap") @@
    ("Important" :> "important") @@ ("Unimportant" :> "unimportant") @@
    ("Top" :> "top") @@ ("Priority" :> "priority") @@ ("Regular" :> "regular")
lower(w) == IF w \in DOMAIN LowerTable THEN LowerTable[w] ELSE w

\* PRIORITY_KEYWORDS, lower-cased, as sequences of words
PRIORITY_KEYWORDS == {
    <<"asap">>, <<"urgent">>, <<"immediately">>, <<"critical">>, <<"important">>,
    <<"top", "priority">>, <<"must", "do">>, <<"high", "importance">> }

\* lower-case words with a keyword word inside them
Embeds == { <<"unimportant", "important">> }
HasInside(w, kw) == w = kw \/ <<w, kw>> \in Embeds

\* keyword in text (substring containment over the joined, lower-cased text)
KeywordIn(kw, txt) ==
    \E i \in 1..Len(txt) :
        /\ i + Len(kw) - 1 <= Len(txt)
        /\ \A j \in 1..Len(kw) :
              /\ txt[i + j - 1].k = "word"
              /\ HasInside(lower(txt[i + j - 1].s), kw[j])

\* None for a str | None
NoneStr == <<NoMatch>>
OrEmpty(s) == IF s = NoneStr THEN <<>> ELSE s

_is_priority_task(title, description) ==
    LET txt == title \o OrEmpty(description)
    IN \E kw \in PRIORITY_KEYWORDS : KeywordIn(kw, txt)

----------------------------------------------------------------------------
(* dictionaries, dt_util *)

\* a task record of the remote store: keys is the set of keys present
Task(keys, id, title, status, due, notes) ==
    [keys |-> keys, id |-> id, title |-> title, status |-> status,
     due |-> due, notes |-> notes]
\* dict.get(key, default)
get(d, key, default) == IF key \in d.keys THEN d[key] ELSE default

\* a due string: "isoZ" an ISO-8601 UTC timestamp ("2024-11-28T10:00:00Z"),
\* "offsetZ" an ISO string with offset and a further Z, "bad" any other
\* non-empty string, "empty" the empty string
DueStr(k, t) == [k |-> k, t |-> t]
NoneDue == DueStr("None", NoStamp)

\* dt_util.parse_datetime: an aware datetime, or None when the string is not a datetime
parse_datetime(due_str) ==
    IF due_str.k = "isoZ" THEN [kind |-> "aware", t |-> due_str.t] ELSE None

\* dt_util.as_utc
as_utc(dt) == [kind |-> "aware", t |-> dt.t]

_format_due_datetime(due) ==
    \* isoformat() of an aware datetime ends in +00:00
    DueStr(IF due.kind = "aware" THEN "offsetZ" ELSE "isoZ", due.t)

----------------------------------------------------------------------------
(* _convert_todo_item, _convert_api_item *)

TodoItem(summary, uid, status, due, description) ==
    [summary |-> summary, uid |-> uid, status |-> status, due |-> due,
     description |-> description]

TODO_STATUS_MAP == ("needsAction" :> "NEEDS_ACTION") @@ ("completed" :> "COMPLETED")
TODO_STATUS_MAP_INV == ("NEEDS_ACTION" :> "needsAction") @@ ("COMPLETED" :> "completed")

\* truth value of item.description: None and "" are false
DescriptionTruthy(description) == description # NoneStr /\ description # <<>>

\* _convert_todo_item testing the description against None only
_convert_todo_item_not_none(item) ==
    Task({"title", "status"}
            \cup (IF item.due # None THEN {"due"} ELSE {})
            \cup (IF item.description # NoneStr THEN {"notes"} ELSE {}),
         "",
         item.summary,
         IF item.status \in DOMAIN TODO_STATUS_MAP_INV
            THEN TODO_STATUS_MAP_INV[item.status] ELSE "needsAction",
         IF item.due # None THEN _format_due_datetime(as_utc(item.due)) ELSE NoneDue,
         IF item.description # NoneStr THEN item.description ELSE <<>>)

_convert_todo_item(item) ==
    Task({"title", "status"}
            \cup (IF item.due # None THEN {"due"} ELSE {})
            \cup (IF DescriptionTruthy(item.description) THEN {"notes"} ELSE {}),
         "",
         item.summary,
         IF item.status \in DOMAIN TODO_STATUS_MAP_INV
            THEN TODO_STATUS_MAP_INV[item.status] ELSE "needsAction",
         IF item.due # None THEN _format_due_datetime(as_utc(item.due)) ELSE NoneDue,
         IF DescriptionTruthy(item.description) THEN item.description ELSE <<>>)

_convert_api_item(item) ==
    LET due_str == get(item, "due", NoneDue)
        title == get(item, "title", <<>>)
        notes == get(item, "notes", <<>>)
        extracted_datetime == _extract_date_time(title \o notes).date
        due == IF due_str # NoneDue THEN parse_datetime(due_str)
               ELSE extracted_datetime
        status == get(item, "status", "")
    IN TodoItem(item.title, item.id,
                IF status \in DOMAIN TODO_STATUS_MAP
                   THEN TODO_STATUS_MAP[status] ELSE "NEEDS_ACTION",
                due,
                get(item, "notes", NoneStr))

----------------------------------------------------------------------------
(* _order_tasks *)

\* a list or a raised TypeError
Ok(seq) == [err |-> FALSE, seq |-> seq]
TypeError == [err |-> TRUE, seq |-> <<>>]

Front(s) == SubSeq(s, 1, Len(s) - 1)
Last(s) == s[Len(s)]

get_due_date(task) ==
    LET due_str == get(task, "due", NoneDue)
        title == get(task, "title", <<>>)
        notes == get(task, "notes", <<>>)
        extracted_datetime == _extract_date_time(title \o notes).date
    IN IF due_str # NoneDue /\ due_str.k # "empty"
       THEN parse_datetime(due_str)
       ELSE IF extracted_datetime # None THEN extracted_datetime ELSE datetime_max

IsCompleted(task) == get(task, "status", "None") = "completed"

\* sort_key with the priority flag not negated
sort_key_priority_last(task) ==
    [is_completed |-> IsCompleted(task),
     not_priority |-> _is_priority_task(task.title, get(task, "notes", NoneStr)),
     due_date     |-> get_due_date(task)]

sort_key(task) ==
    [is_completed |-> IsCompleted(task),
     not_priority |-> ~_is_priority_task(task.title, get(task, "notes", NoneStr)),
     due_date     |-> get_due_date(task)]

\* a < b on datetime | None: "lt", "ge", or "TypeError" (None against a
\* datetime, offset-naive against offset-aware)
DateLess(a, b) ==
    IF a.kind = "None" \/ b.kind = "None" \/ a.kind # b.kind THEN "TypeError"
    ELSE IF StampLess(a.t, b.t) THEN "lt" ELSE "ge"

\* x < y on the key tuples: the first position where they differ decides
KeyLess(x, y) ==
    IF x.is_completed # y.is_completed THEN (IF y.is_completed THEN "lt" ELSE "ge")
    ELSE IF x.not_priority # y.not_priority THEN (IF y.not_priority THEN "lt" ELSE "ge")
    ELSE IF x.due_date = y.due_date THEN "ge"
    ELSE DateLess(x.due_date, y.due_date)


\* insort placing x before the elements equal to it
RECURSIVE insort_before_equal(_, _, _)
insort_before_equal(keys, s, x) ==
    IF s = <<>> THEN Ok(<<x>>)
    ELSE LET r == KeyLess(keys[Last(s)], keys[x])
         IN IF r = "TypeError" THEN TypeError
            ELSE IF r = "lt" THEN Ok(Append(s, x))
            ELSE LET rest == insort_before_equal(keys, Front(s), x)
                 IN IF rest.err THEN TypeError
                    ELSE Ok(Append(rest.seq, Last(s)))

\* insert index x into the sorted index list s, after every element not greater
RECURSIVE insort(_, _, _)
insort(keys, s, x) ==
    IF s = <<>> THEN Ok(<<x>>)
    ELSE LET r == KeyLess(keys[x], keys[Last(s)])
         IN IF r = "TypeError" THEN TypeError
            ELSE IF r = "ge" THEN Ok(Append(s, x))
            ELSE LET rest == insort(keys, Front(s), x)
                 IN IF rest.err THEN TypeError
                    ELSE Ok(Append(rest.seq, Last(s)))

\* sorted(..., key=sort_key) on the positions idxs, keys[i] being the key of
\* position i (sorted computes the key of every element once, up front): stable
RECURSIVE sorted(_, _)
sorted(keys, idxs) ==
    IF idxs = <<>> THEN Ok(<<>>)
    ELSE LET head == sorted(keys, Front(idxs))
         IN IF head.err THEN TypeError ELSE insort(keys, head.seq, Last(idxs))

\* filter_idx taking status "needsAction" for the incomplete records
RECURSIVE filter_idx_needs_action(_, _, _)
filter_idx_needs_action(ts, i, completed) ==
    IF i > Len(ts) THEN <<>>
    ELSE (IF (completed /\ IsCompleted(ts[i]))
             \/ (~completed /\ get(ts[i], "status", "None") = "needsAction")
          THEN <<i>> ELSE <<>>)
         \o filter_idx_needs_action(ts, i + 1, completed)

\* [i for i in 1..Len(ts) if P(ts[i])], as indices in input order
RECURSIVE filter_idx(_, _, _)
filter_idx(ts, i, completed) ==
    IF i > Len(ts) THEN <<>>
    ELSE (IF IsCompleted(ts[i]) = completed THEN <<i>> ELSE <<>>)
         \o filter_idx(ts, i + 1, completed)

\* order_with_keys returning the incomplete records first
order_with_keys_incomplete_first(ts, keys) ==
    LET incomplete_tasks == filter_idx(ts, 1, FALSE)
        completed_tasks == filter_idx(ts, 1, TRUE)
        sorted_incomplete == sorted(keys, incomplete_tasks)
        sorted_completed == sorted(keys, completed_tasks)
    IN IF sorted_incomplete.err \/ sorted_completed.err THEN TypeError
       ELSE Ok(sorted_incomplete.seq \o sorted_completed.seq)

\* the body of _order_tasks, keys[i] being sort_key of ts[i]
order_with_keys(ts, keys) ==
    LET incomplete_tasks == filter_idx(ts, 1, FALSE)
        completed_tasks == filter_idx(ts, 1, TRUE)
        sorted_incomplete == sorted(keys, incomplete_tasks)
        sorted_completed == sorted(keys, completed_tasks)
    IN IF sorted_incomplete.err \/ sorted_completed.err THEN TypeError
       ELSE Ok(sorted_completed.seq \o sorted_incomplete.seq)

\* the positions of the input in the order of the output
order_perm(ts) ==
    CHOOSE p \in { order_with_keys(ts, keys) :
                     keys \in {[i \in 1..Len(ts) |-> sort_key(ts[i])]} } : TRUE

_order_tasks(ts) ==
    CHOOSE res \in { IF p.err THEN [err |-> TRUE, seq |-> <<>>, perm |-> <<>>]
                     ELSE [err |-> FALSE, seq |-> [i \in 1..Len(p.seq) |-> ts[p.seq[i]]],
                           perm |-> p.seq] :
                     p \in {order_perm(ts)} } : TRUE

----------------------------------------------------------------------------
(* The remote store and the coordinator *)

ids(r) == {r[i].id : i \in 1..Len(r)}

\* api.insert: the store assigns the id
RemoteInsert(r, task, id) == Append(r, [task EXCEPT !.id = id, !.keys = @ \cup {"id"}])

\* api.patch: the keys of the patch replace those of the stored record
PatchRecord(old, task) ==
    [keys   |-> old.keys \cup task.keys,
     id     |-> old.id,
     title  |-> IF "title" \in task.keys THEN task.title ELSE old.title,
     status |-> IF "status" \in task.keys THEN task.status ELSE old.status,
     due    |-> IF "due" \in task.keys THEN task.due ELSE old.due,
     notes  |-> IF "notes" \in task.keys THEN task.notes ELSE old.notes]
RemotePatch(r, uid, task) ==
    [i \in 1..Len(r) |-> IF r[i].id = uid THEN PatchRecord(r[i], task) ELSE r[i]]

\* api.delete
KeepIdx(r, uids) == {i \in 1..Len(r) : r[i].id \notin uids}
RECURSIVE RemoteDeleteFrom(_, _, _)
RemoteDeleteFrom(r, uids, i) ==
    IF i > Len(r) THEN <<>>
    ELSE (IF i \in KeepIdx(r, uids) THEN <<r[i]>> ELSE <<>>) \o RemoteDeleteFrom(r, uids, i + 1)
RemoteDelete(r, uids) == RemoteDeleteFrom(r, uids, 1)

\* api.move: uid goes right after previous (0: to the front)
RemoteMove(r, uid, previous) ==
    IF uid \notin ids(r) \/ (previous # 0 /\ previous \notin ids(r)) \/ previous = uid THEN r
    ELSE LET moved == r[CHOOSE i \in 1..Len(r) : r[i].id = uid]
             rest == RemoteDelete(r, {uid})
         IN IF previous = 0 THEN <<moved>> \o rest
            ELSE LET j == CHOOSE i \in 1..Len(rest) : rest[i].id = previous
                 IN SubSeq(rest, 1, j) \o <<moved>> \o SubSeq(rest, j + 1, Len(rest))

\* coordinator.async_refresh: the snapshot becomes the content of the store
async_refresh(r) == r

\* one entry of the record of calls made on the coordinator and its api
Call(name, result) == [call |-> name, result |-> result]
Refresh == Call("refresh", "ok")
Errors == {"GoogleTasksApiError", "TimeoutError"}
Outcomes == {"ok"} \cup Errors

----------------------------------------------------------------------------
(* Inputs *)

SlashNums == {1, 12, 13, 31}
SlashTokens == {Tok("slash", a, b, 2024, "", FALSE) : a \in SlashNums, b \in SlashNums}
OtherDateTokens == {
    Tok("ymd", 2023, 5, 6, "", FALSE), Tok("ymd", 2024, 13, 1, "", FALSE),
    Tok("dMonY", 27, 11, 2024, "", FALSE), Tok("dMonY", 31, 11, 2024, "", FALSE),
    Tok("MonDY", 11, 27, 2024, "", FALSE), Tok("MonDY", 11, 27, 2024, "", TRUE),
    Tok("YMonD", 2024, 11, 27, "", FALSE), Tok("YDMon", 2024, 27, 11, "", FALSE) }
Suffixes == {<<"", FALSE>>, <<"AM", TRUE>>, <<"PM", TRUE>>, <<"PM", FALSE>>}
TimeTokens == {Tok("time", h, m, 0, x[1], x[2]) : h \in {0, 3, 12, 18, 25}, m \in {5, 99}, x \in Suffixes}
Tokens == SlashTokens \cup OtherDateTokens \cup TimeTokens \cup {Word("Meeting")}

SeqsUpTo(S, n) == UNION {[1..k -> S] : k \in 0..n}
Texts == SeqsUpTo(Tokens, MaxTokens)

NoExtract == [date |-> None, time |-> NoMatch, idx |-> 0]

T1 == Stamp(2024, 11, 28, 10, 0)
T2 == Stamp(2024, 12, 1, 9, 30)
Nov27 == Tok("dMonY", 27, 11, 2024, "", FALSE)
Oct3 == Tok("dMonY", 3, 10, 2024, "", FALSE)
At18 == Tok("time", 18, 0, 0, "", FALSE)

ApiTitles == { <<Word("Buy"), Word("groceries")>>, <<Word("Meeting"), Nov27, At18>> }
ApiNotes == { NoneStr, <<Word("Milk")>>, <<Word("on"), Oct3>> }
ApiDues == { NoneDue, DueStr("isoZ", T1), DueStr("bad", NoStamp), DueStr("empty", NoStamp) }
ApiStatuses == { "None", "needsAction", "completed", "deleted" }
ApiItems ==
    { Task({"id", "title"} \cup (IF st # "None" THEN {"status"} ELSE {})
                           \cup (IF du # NoneDue THEN {"due"} ELSE {})
                           \cup (IF no # NoneStr THEN {"notes"} ELSE {}),
           1, ti, IF st # "None" THEN st ELSE "", du, IF no # NoneStr THEN no ELSE <<>>) :
        ti \in ApiTitles, no \in ApiNotes, du \in ApiDues, st \in ApiStatuses }

TodoItems ==
    { TodoItem(<<Word("Task")>>, 0, st, du, de) :
        st \in {"None", "NEEDS_ACTION", "COMPLETED"},
        du \in {None, Naive(2024, 11, 27, 18, 0), [kind |-> "aware", t |-> T1]},
        de \in {NoneStr, <<>>, <<Word("Milk")>>} }

NoTodoItem == TodoItem(<<>>, 0, "None", None, NoneStr)
NoTask == Task({}, 0, <<>>, "", NoneDue, <<>>)

\* the records the orderer is run on
Rec(id, status, title, due) ==
    Task({"id", "title"} \cup (IF status # "None" THEN {"status"} ELSE {})
                         \cup (IF due # NoneDue THEN {"due"} ELSE {}),
         id, title, IF status # "None" THEN status ELSE "", due, <<>>)
TaskUniverse == {
    Rec(1, "None", <<Word("Regular"), Word("task")>>, NoneDue),
    Rec(2, "None", <<Word("Urgent"), Word("meeting")>>, NoneDue),
    Rec(3, "None", <<Word("Another"), Word("task")>>, NoneDue),
    Rec(4, "completed", <<Word("Paid"), Word("bill")>>, DueStr("isoZ", T2)),
    Rec(5, "completed", <<Word("Sent"), Word("mail")>>, DueStr("isoZ", T1)),
    Rec(6, "needsAction", <<Word("Meeting"), Nov27, At18>>, NoneDue),
    Rec(7, "needsAction", <<Word("Buy"), Word("groceries")>>, DueStr("isoZ", T1)),
    Rec(8, "needsAction", <<Word("Call"), Nov27>>, DueStr("bad", NoStamp)),
    Rec(9, "completed", <<Word("ASAP"), Word("fix")>>, NoneDue),
    Rec(10, "needsAction", <<Word("Visit"), Oct3>>, DueStr("empty", NoStamp)) }
TaskLists == SeqsUpTo(TaskUniverse, MaxTasks)

NoOrder == [err |-> FALSE, seq |-> <<>>, perm |-> <<>>]

EntityItems ==
    { TodoItem(<<Word("Task")>>, uid, st, None, NoneStr) :
        uid \in 1..2, st \in {"NEEDS_ACTION", "COMPLETED"} }
NoLast == [op |-> "None", called |-> FALSE, outcome |-> "ok", len_before |-> 0]

----------------------------------------------------------------------------
(* Specifications *)

EIdle == text = <<>> /\ extracted = NoExtract /\ epc = "idle"
CIdle == api_item = NoTask /\ from_api = NoTodoItem /\ todo_item = NoTodoItem
         /\ to_remote = NoTask /\ cpc = "idle"
OIdle == tasks = <<>> /\ ordered = NoOrder /\ reordered = NoOrder /\ opc = "idle"
GIdle == data = <<>> /\ remote = <<>> /\ log = <<>> /\ raised = "None"
         /\ last = NoLast /\ nops = 0

\* --- _extract_date_time on a text
InitExtract ==
    /\ text \in Texts /\ extracted = NoExtract /\ epc = "start"
    /\ CIdle /\ OIdle /\ GIdle
Extract ==
    /\ epc = "start"
    /\ extracted' = _extract_date_time(text)
    /\ epc' = "done"
    /\ UNCHANGED <<text, cvars, ovars, gvars>>
NextExtract == Extract
SpecExtract == InitExtract /\ [][NextExtract]_vars

\* --- the item codec on a record and on an item
InitCodec ==
    /\ api_item \in ApiItems /\ todo_item \in TodoItems
    /\ from_api = NoTodoItem /\ to_remote = NoTask /\ cpc = "start"
    /\ EIdle /\ OIdle /\ GIdle
ConvertApiItem ==
    /\ cpc = "start"
    /\ from_api' = _convert_api_item(api_item)
    /\ cpc' = "from_api"
    /\ UNCHANGED <<api_item, todo_item, to_remote, evars, ovars, gvars>>
ConvertTodoItem ==
    /\ cpc = "start"
    /\ to_remote' = _convert_todo_item(todo_item)
    /\ cpc' = "to_remote"
    /\ UNCHANGED <<api_item, todo_item, from_api, evars, ovars, gvars>>
NextCodec == ConvertApiItem \/ ConvertTodoItem
SpecCodec == InitCodec /\ [][NextCodec]_vars

\* --- _order_tasks on a list, and on its own output
InitOrder ==
    /\ tasks \in TaskLists /\ ordered = NoOrder /\ reordered = NoOrder /\ opc = "start"
    /\ EIdle /\ CIdle /\ GIdle
Order ==
    /\ opc = "start"
    /\ ordered' = _order_tasks(tasks)
    /\ opc' = "ordered"
    /\ UNCHANGED <<tasks, reordered, evars, cvars, gvars>>
OrderAgain ==
    /\ opc = "ordered" /\ ~ordered.err
    /\ reordered' = _order_tasks(ordered.seq)
    /\ opc' = "reordered"
    /\ UNCHANGED <<tasks, ordered, evars, cvars, gvars>>
NextOrder == Order \/ OrderAgain
SpecOrder == InitOrder /\ [][NextOrder]_vars

\* --- the mutation handlers of one GoogleTaskTodoListEntity
InitEntity ==
    /\ data = <<>> /\ remote = <<>> /\ log = <<>> /\ raised = "None"
    /\ last = NoLast /\ nops = 0
    /\ EIdle /\ CIdle /\ OIdle

\* the store never hands out an id twice
NextId(lg) == 1 + Cardinality({i \in 1..Len(lg) : lg[i] = Call("insert", "ok")})

async_create_todo_item ==
    /\ nops < MaxOps
    /\ \E item \in EntityItems, outcome \in Outcomes :
          /\ IF outcome = "ok"
             THEN /\ remote' = RemoteInsert(remote, _convert_todo_item(item), NextId(log))
                  /\ log' = log \o <<Call("insert", "ok"), Refresh>>
                  /\ data' = async_refresh(remote')
                  /\ raised' = "None"
             ELSE /\ log' = Append(log, Call("insert", outcome))
                  /\ raised' = outcome
                  /\ UNCHANGED <<remote, data>>
          /\ last' = [op |-> "create", called |-> TRUE, outcome |-> outcome,
                      len_before |-> Len(log)]
    /\ nops' = nops + 1
    /\ UNCHANGED <<evars, cvars, ovars>>

async_update_todo_item ==
    /\ nops < MaxOps
    /\ \E item \in EntityItems, outcome \in Outcomes :
          LET uid == item.uid
              existing_item == uid \in ids(data)
          IN IF existing_item
             THEN /\ IF outcome = "ok"
                     THEN /\ remote' = RemotePatch(remote, uid, _convert_todo_item(item))
                          /\ log' = log \o <<Call("patch", "ok"), Refresh>>
                          /\ data' = async_refresh(remote')
                          /\ raised' = "None"
                     ELSE /\ log' = Append(log, Call("patch", outcome))
                          /\ raised' = outcome
                          /\ UNCHANGED <<remote, data>>
                  /\ last' = [op |-> "update", called |-> TRUE, outcome |-> outcome,
                              len_before |-> Len(log)]
             ELSE /\ outcome = "ok"
                  /\ raised' = "None"
                  /\ last' = [op |-> "update", called |-> FALSE, outcome |-> "ok",
                              len_before |-> Len(log)]
                  /\ UNCHANGED <<remote, data, log>>
    /\ nops' = nops + 1
    /\ UNCHANGED <<evars, cvars, ovars>>

\* async_delete_todo_items returning without the refresh
async_delete_todo_items_no_refresh ==
    /\ nops < MaxOps
    /\ \E uids \in SUBSET (1..2), outcome \in Outcomes :
          /\ IF outcome = "ok"
             THEN /\ remote' = RemoteDelete(remote, uids)
                  /\ log' = Append(log, Call("delete", "ok"))
                  /\ raised' = "None"
                  /\ UNCHANGED data
             ELSE /\ log' = Append(log, Call("delete", outcome))
                  /\ raised' = outcome
                  /\ UNCHANGED <<remote, data>>
          /\ last' = [op |-> "delete", called |-> TRUE, outcome |-> outcome,
                      len_before |-> Len(log)]
    /\ nops' = nops + 1
    /\ UNCHANGED <<evars, cvars, ovars>>

async_delete_todo_items ==
    /\ nops < MaxOps
    /\ \E uids \in SUBSET (1..2), outcome \in Outcomes :
          /\ IF outcome = "ok"
             THEN /\ remote' = RemoteDelete(remote, uids)
                  /\ log' = log \o <<Call("delete", "ok"), Refresh>>
                  /\ data' = async_refresh(remote')
                  /\ raised' = "None"
             ELSE /\ log' = Append(log, Call("delete", outcome))
                  /\ raised' = outcome
                  /\ UNCHANGED <<remote, data>>
          /\ last' = [op |-> "delete", called |-> TRUE, outcome |-> outcome,
                      len_before |-> Len(log)]
    /\ nops' = nops + 1
    /\ UNCHANGED <<evars, cvars, ovars>>

async_move_todo_item ==
    /\ nops < MaxOps
    /\ \E uid \in 1..2, previous_uid \in 0..2, outcome \in Outcomes :
          /\ IF outcome = "ok"
             THEN /\ remote' = RemoteMove(remote, uid, previous_uid)
                  /\ log' = log \o <<Call("move", "ok"), Refresh>>
                  /\ data' = async_refresh(remote')
                  /\ raised' = "None"
             ELSE /\ log' = Append(log, Call("move", outcome))
                  /\ raised' = outcome
                  /\ UNCHANGED <<remote, data>>
          /\ last' = [op |-> "move", called |-> TRUE, outcome |-> outcome,
                      len_before |-> Len(log)]
    /\ nops' = nops + 1
    /\ UNCHANGED <<evars, cvars, ovars>>

NextEntity ==
    \/ async_create_todo_item
    \/ async_update_todo_item
    \/ async_delete_todo_items
    \/ async_move_todo_item
SpecEntity == InitEntity /\ [][NextEntity]_vars

----------------------------------------------------------------------------
(* Properties of _order_tasks (SpecOrder) *)

Count(x, seq) == Cardinality({i \in 1..Len(seq) : seq[i] = x})
Returned == opc \in {"ordered", "reordered"} /\ ~ordered.err
Priority(task) == _is_priority_task(task.title, get(task, "notes", NoneStr))

\* C1: whenever _order_tasks returns, every record of the output whose status
\* is "completed" is at an earlier index than every record whose status is not
\* "completed" (absent status included), whatever the priority and the due dates.
C1_CompletedFirst ==
    Returned =>
        \A i, j \in 1..Len(ordered.seq) :
            IsCompleted(ordered.seq[i]) /\ ~IsCompleted(ordered.seq[j]) => i < j

\* an incomplete priority record that came first in the input ends up behind a
\* completed non-priority record
C1_Witness ==
    /\ Returned /\ Len(tasks) = 3
    /\ ~IsCompleted(tasks[1]) /\ Priority(tasks[1])
    /\ IsCompleted(tasks[3]) /\ ~Priority(tasks[3])
    /\ ordered.seq[1] = tasks[3]
    /\ ordered.seq[3] = tasks[1]

\* C2: _order_tasks applied to the output of _order_tasks returns, and returns
\* the same records in the same positions as the first application.
C2_Idempotent ==
    opc = "reordered" => ~reordered.err /\ reordered.seq = ordered.seq

\* the first application moved records, the second one did not
C2_Witness ==
    /\ opc = "reordered" /\ Len(tasks) = 3
    /\ ordered.seq # tasks
    /\ ordered.perm = <<3, 1, 2>>
    /\ reordered.perm = <<1, 2, 3>>

\* C3: the output of _order_tasks has the length of the input and holds every
\* record as many times as the input does, each output position holding the
\* unmodified record of one input position, and the input list itself is left
\* as it was.
C3_Permutation ==
    /\ [][tasks' = tasks]_vars
    /\ [](Returned =>
            /\ Len(ordered.seq) = Len(tasks)
            /\ \A t \in TaskUniverse : Count(t, ordered.seq) = Count(t, tasks)
            /\ {ordered.perm[i] : i \in 1..Len(ordered.perm)} = 1..Len(tasks)
            /\ \A i \in 1..Len(ordered.seq) : ordered.seq[i] = tasks[ordered.perm[i]])

\* an input with a record twice and a record without status, reordered
C3_Witness ==
    /\ Returned /\ Len(tasks) = 3
    /\ tasks[1] = tasks[3] /\ tasks[1] # tasks[2]
    /\ "status" \notin tasks[1].keys
    /\ IsCompleted(tasks[2])
    /\ ordered.seq # tasks

\* C4: within each partition of the output the records are in ascending order
\* of (not-priority flag, due date of the sort key): priority records first,
\* then by due date, and records with equal flag and equal due date in the
\* order they had in the input.
C4_SortedWithinPartition ==
    Returned =>
        \A i, j \in 1..Len(ordered.seq) :
            (i < j /\ IsCompleted(ordered.seq[i]) = IsCompleted(ordered.seq[j])) =>
                LET pi == Priority(ordered.seq[i])
                    pj == Priority(ordered.seq[j])
                    di == get_due_date(ordered.seq[i])
                    dj == get_due_date(ordered.seq[j])
                IN /\ (pj => pi)
                   /\ pi = pj =>
                        /\ DateLess(dj, di) # "lt"
                        /\ di = dj => ordered.perm[i] < ordered.perm[j]

\* the case of test_order_tasks: no status, no due, no date in the text
C4_Witness ==
    /\ Returned
    /\ Len(tasks) = 3 /\ tasks[1].id = 1 /\ tasks[2].id = 2 /\ tasks[3].id = 3
    /\ ordered.perm = <<2, 1, 3>>

\* the effective due date as the specification defines it
SpecEffectiveDue(task) ==
    LET parsed == parse_datetime(get(task, "due", NoneDue))
        found == _extract_date_time(get(task, "title", <<>>) \o get(task, "notes", <<>>)).date
    IN IF "due" \in task.keys /\ parsed # None THEN parsed
       ELSE IF found # None THEN found ELSE datetime_max

\* C5: _order_tasks returns an ordered result for every input, in which, within
\* one partition and one priority class, no record without an effective due
\* date (parsed due, else extracted date) precedes a record that has one.
C5_OrdersMixedDues ==
    opc = "ordered" =>
        /\ ~ordered.err
        /\ \A i, j \in 1..Len(ordered.seq) :
              (/\ i < j
               /\ IsCompleted(ordered.seq[i]) = IsCompleted(ordered.seq[j])
               /\ Priority(ordered.seq[i]) = Priority(ordered.seq[j]))
              => ~(/\ SpecEffectiveDue(ordered.seq[i]) = datetime_max
                   /\ SpecEffectiveDue(ordered.seq[j]) # datetime_max)

----------------------------------------------------------------------------
(* Properties of the item codec (SpecCodec) *)

\* C6: _convert_api_item sets due to the parsed `due` field when the field is
\* present and parseable, and in every other case (absent, or present but not
\* parseable) to the date extracted from title + " " + notes, None only when
\* neither yields a date.
C6_DueWithFallback ==
    cpc = "from_api" =>
        LET parsed == parse_datetime(get(api_item, "due", NoneDue))
            found == _extract_date_time(get(api_item, "title", <<>>)
                                        \o get(api_item, "notes", <<>>)).date
        IN from_api.due = IF "due" \in api_item.keys /\ parsed # None
                          THEN parsed ELSE found

MappingKeys == {"title", "status", "due", "notes"}
StatusOf(item) == IF item.status = "COMPLETED" THEN "completed" ELSE "needsAction"

\* C9 as stated: title and status always, due iff the due is set, notes iff the
\* description is set (not None), no other key.
C9_KeysIffSet ==
    cpc = "to_remote" =>
        /\ {"title", "status"} \subseteq to_remote.keys
        /\ to_remote.keys \subseteq MappingKeys
        /\ to_remote.title = todo_item.summary
        /\ to_remote.status = StatusOf(todo_item)
        /\ ("due" \in to_remote.keys) = (todo_item.due # None)
        /\ ("notes" \in to_remote.keys) = (todo_item.description # NoneStr)

\* C9 amended: title and status always, due iff the due is set, notes iff the
\* description is set and is not the empty string, no other key.
C9_KeysIffNonEmpty ==
    cpc = "to_remote" =>
        /\ {"title", "status"} \subseteq to_remote.keys
        /\ to_remote.keys \subseteq MappingKeys
        /\ to_remote.title = todo_item.summary
        /\ to_remote.status = StatusOf(todo_item)
        /\ ("due" \in to_remote.keys) = (todo_item.due # None)
        /\ ("notes" \in to_remote.keys) =
              (todo_item.description # NoneStr /\ todo_item.description # <<>>)
        /\ "notes" \in to_remote.keys => to_remote.notes = todo_item.description

\* an item with a due, no status and the empty description: no notes key
C9_Witness ==
    /\ cpc = "to_remote"
    /\ todo_item.description = <<>> /\ todo_item.due # None /\ todo_item.status = "None"
    /\ to_remote.keys = {"title", "status", "due"}
    /\ to_remote.status = "needsAction"

----------------------------------------------------------------------------
(* Properties of _extract_date_time (SpecExtract) *)

HasTok(txt, k) == \E i \in 1..Len(txt) : txt[i].k = k
FirstTok(txt, k) == txt[CHOOSE i \in 1..Len(txt) : txt[i].k = k /\ \A j \in 1..(i - 1) : txt[j].k # k]
DateOnly(dt) == [dt EXCEPT !.t.min = 0]

\* a time substring that denotes a time of day: 1..12 with AM/PM, 0..23 without
ValidTime(tok) ==
    /\ tok.b \in 0..59
    /\ IF tok.s \in {"AM", "PM"} THEN tok.a \in 1..12 ELSE tok.a \in 0..23
ClockMinutes(tok) ==
    IF tok.s = "" THEN tok.a * 60 + tok.b
    ELSE ((tok.a % 12) + (IF tok.s = "PM" THEN 12 ELSE 0)) * 60 + tok.b

\* C8: _extract_date_time returns on every text.  With a date and a valid time
\* the result is the date with hour and minute of the time (12-hour reading
\* with AM/PM, 24-hour without); with a date and a time substring that is not a
\* valid time the result is the date at 00:00; the raw time substring is
\* returned in every case, also when no date is found (date None).
C8_DateTimeCombination ==
    epc = "done" =>
        LET date == date_loop(text, 1).date
            raw == IF HasTok(text, "time") THEN FirstTok(text, "time") ELSE NoMatch
        IN /\ extracted.time = raw
           /\ date = None => extracted.date = None
           /\ (date # None /\ raw = NoMatch) => extracted.date = date
           /\ (date # None /\ raw # NoMatch /\ ValidTime(raw)) =>
                 extracted.date = [date EXCEPT !.t.min = ClockMinutes(raw)]
           /\ (date # None /\ raw # NoMatch /\ ~ValidTime(raw)) =>
                 extracted.date = date /\ date.t.min = 0

SlashValid(txt, fmt) == strptime(FirstTok(txt, "slash"), fmt) # ValueError
YmdParsed(txt) == HasTok(txt, "ymd") /\ strptime(FirstTok(txt, "ymd"), "%Y/%m/%d") # ValueError

\* C10 as stated: for a text with an NN/NN/NNNN substring the MM/DD/YYYY
\* candidate never produces the returned date; what the slash candidates
\* produce is the DD/MM/YYYY reading.
C10_MonthFirstUnreachable ==
    (epc = "done" /\ HasTok(text, "slash")) =>
        /\ extracted.idx # 3
        /\ extracted.idx = 2 =>
              DateOnly(extracted.date) = strptime(FirstTok(text, "slash"), "%d/%m/%Y")

\* C10 amended: unless a YYYY/MM/DD substring was parsed first, the first
\* NN/NN/NNNN substring is read as DD/MM/YYYY when that is a valid date; when it
\* is not and the substring is a valid date read as MM/DD/YYYY, the MM/DD/YYYY
\* candidate produces the returned date; when neither reading is valid neither
\* slash candidate produces it.
C10_MonthFirstFallback ==
    (epc = "done" /\ HasTok(text, "slash")) =>
        IF YmdParsed(text) THEN extracted.idx = 1
        ELSE IF SlashValid(text, "%d/%m/%Y")
             THEN /\ extracted.idx = 2
                  /\ DateOnly(extracted.date) = strptime(FirstTok(text, "slash"), "%d/%m/%Y")
        ELSE IF SlashValid(text, "%m/%d/%Y")
             THEN /\ extracted.idx = 3
                  /\ DateOnly(extracted.date) = strptime(FirstTok(text, "slash"), "%m/%d/%Y")
        ELSE extracted.idx \notin {1, 2, 3}

\* 12/31/2024: not a date as DD/MM/YYYY, 31 December as MM/DD/YYYY
C10_Witness ==
    /\ epc = "done" /\ Len(text) = 2
    /\ text[2] = Tok("slash", 12, 31, 2024, "", FALSE)
    /\ text[1].k = "time"
    /\ extracted.idx = 3
    /\ DateOnly(extracted.date) = Naive(2024, 12, 31, 0, 0)

----------------------------------------------------------------------------
(* Properties of the mutation handlers (SpecEntity) *)

IsOkMutation(e) == e.call \in {"insert", "patch", "delete", "move"} /\ e.result = "ok"
Refreshes(lg) == Cardinality({i \in 1..Len(lg) : lg[i] = Refresh})
OkMutations(lg) == Cardinality({i \in 1..Len(lg) : IsOkMutation(lg[i])})

\* C7: after any sequence of create, update, delete and move operations the
\* number of refreshes equals the number of remote mutation calls that
\* returned; every such call is directly followed by its refresh, within the
\* operation, and every refresh directly follows such a call.  An operation
\* whose remote call fails makes no refresh and raises the error of the call;
\* an update of a uid that is not in the snapshot makes no call and no refresh.
C7_RefreshAfterEveryMutation ==
    /\ Refreshes(log) = OkMutations(log)
    /\ \A i \in 1..Len(log) :
          /\ IsOkMutation(log[i]) => (i < Len(log) /\ log[i + 1] = Refresh)
          /\ log[i] = Refresh => (i > 1 /\ IsOkMutation(log[i - 1]))
    /\ last.op # "None" =>
          IF ~last.called
          THEN Len(log) = last.len_before /\ raised = "None" /\ last.op = "update"
          ELSE IF last.outcome = "ok"
          THEN /\ Len(log) = last.len_before + 2
               /\ raised = "None"
               /\ data = remote
          ELSE /\ Len(log) = last.len_before + 1
               /\ log[Len(log)].result = last.outcome
               /\ raised = last.outcome

\* a create that went through, an update of a uid that is not in the snapshot,
\* then an update whose patch fails
C7_Witness ==
    /\ nops = 3
    /\ log = <<Call("insert", "ok"), Refresh, Call("patch", "GoogleTasksApiError")>>
    /\ raised = "GoogleTasksApiError"
    /\ last.op = "update"
    /\ Len(data) = 1

====
